---- MODULE Spec2Model ----
(***************************************************************************)
(* One connection of the web server of src/main.rs: handle_connection      *)
(* reads once into a fixed buffer, frames and parses the request line,     *)
(* builds the response, writes the status line and flushes. main accepts   *)
(* connections and spawns one such task for each.                          *)
(*                                                                         *)
(* Bytes are their numeric values, text is a sequence of code points.      *)
(* Option<T> is a sequence of length 0 (None) or 1 (Some).                 *)
(***************************************************************************)
EXTENDS Integers, Sequences, FiniteSets, TLC

VARIABLES
    pc,        \* where handle_connection is
    wire,      \* the bytes the peer sends on this connection, in order
    buf,       \* buf[..n]: what the read put into the buffer
    brk,       \* what next_line_break returned for buf[..n]
    request,   \* Option<Request>: what read_request returned
    response,  \* Option<Response>: what handle_request returned
    written,   \* the bytes handed to the connection so far
    err,       \* the error handle_connection returns (kind "none": no error)
    ops,       \* history: the steps taken on this connection, in order
    timer,     \* the timeout() armed around the pending await, or "none"
    tasks,     \* the spawned tasks that are not running now: their connections
    running,   \* the task whose connection the variables above hold
    proc       \* Option<Error>: None while main runs, the error it returned

vars == <<pc, wire, buf, brk, request, response, written, err, ops, timer,
          tasks, running, proc>>

\* What main and the runtime hold besides the connection at hand.
sched == <<tasks, running, proc>>

----------------------------------------------------------------------------
(* Bounds *)

\* The capacity of the read buffer. The source's value is 1024 * 8; the model
\* keeps the code's use of it and scales the number.
MAX_HEADER_SIZE == 10

\* How many pieces the peer's byte stream is made of, at most.
MaxPieces == 5

----------------------------------------------------------------------------
(* Bytes and values *)

CR == 13
LF == 10

GET == <<71, 69, 84>>
POST == <<80, 79, 83, 84>>

None == <<>>
Some(x) == <<x>>

NoError == [kind |-> "none", arg |-> <<>>]
Error(kind, arg) == [kind |-> kind, arg |-> arg]

(* What the peer may send: sequences of at most MaxPieces of these pieces. *)
Pieces ==
    { GET, POST, <<32, 47>>, <<32>>, <<CR, LF>>, <<CR>>, <<255>> }

RECURSIVE Concats(_, _)
Concats(S, k) ==
    IF k = 0 THEN { <<>> }
    ELSE LET prev == Concats(S, k - 1)
         IN  prev \cup { w \o p : w \in prev, p \in S }

Wires == Concats(Pieces, MaxPieces)

----------------------------------------------------------------------------
(* Frame Locator *)

RECURSIVE scan(_, _)
scan(b, idx) ==
    IF idx >= Len(b) - 1 THEN None
    ELSE IF b[idx + 1] = CR /\ b[idx + 2] = LF THEN Some(idx)
    ELSE scan(b, idx + 1)

RECURSIVE scan_short(_, _)
scan_short(b, idx) ==
    IF idx >= Len(b) - 2 THEN None
    ELSE IF b[idx + 1] = CR /\ b[idx + 2] = LF THEN Some(idx)
    ELSE scan_short(b, idx + 1)

next_line_break_short(b) ==
    IF Len(b) < 2 THEN None ELSE scan_short(b, 0)

next_line_break(b) ==
    IF Len(b) < 2 THEN None ELSE scan(b, 0)

(* The indices of b that the loop of next_line_break reads from idx on, while
   idx is below limit; a read past the end of b is the last one (it panics).
   The second byte is read only when the first is CR. *)
RECURSIVE scan_accesses(_, _, _)
scan_accesses(b, idx, limit) ==
    IF idx >= limit THEN {}
    ELSE IF idx >= Len(b) THEN {idx}
    ELSE IF b[idx + 1] # CR THEN {idx} \cup scan_accesses(b, idx + 1, limit)
    ELSE IF idx + 1 >= Len(b) THEN {idx, idx + 1}
    ELSE IF b[idx + 2] = LF THEN {idx, idx + 1}
    ELSE {idx, idx + 1} \cup scan_accesses(b, idx + 1, limit)

(* next_line_break without its check of the length: buf.len() - 1 wraps for
   the empty slice (2147483647 stands for usize::MAX). *)
next_line_break_accesses_unguarded(b) ==
    [underflow |-> Len(b) < 1,
     reads |-> scan_accesses(b, 0, IF Len(b) < 1 THEN 2147483647 ELSE Len(b) - 1)]

(* What next_line_break does to its slice: whether buf.len() - 1 is computed
   for an empty slice, and the indices read. *)
next_line_break_accesses(b) ==
    IF Len(b) < 2 THEN [underflow |-> FALSE, reads |-> {}]
    ELSE [underflow |-> Len(b) < 1, reads |-> scan_accesses(b, 0, Len(b) - 1)]

----------------------------------------------------------------------------
(* Request Parser *)

(* str::from_utf8: the length of the well-formed UTF-8 sequence that starts
   at b[i], or 0 when there is none. *)
utf8_len(b, i) ==
    LET b0 == b[i]
        has(k) == i + k <= Len(b)
        cont(j) == b[j] \in 128..191
    IN  IF b0 < 128 THEN 1
        ELSE IF b0 \in 194..223 /\ has(1) /\ cont(i + 1) THEN 2
        ELSE IF b0 = 224 /\ has(2) /\ b[i + 1] \in 160..191 /\ cont(i + 2) THEN 3
        ELSE IF b0 \in ((225..236) \cup {238, 239}) /\ has(2)
                /\ cont(i + 1) /\ cont(i + 2) THEN 3
        ELSE IF b0 = 237 /\ has(2) /\ b[i + 1] \in 128..159 /\ cont(i + 2) THEN 3
        ELSE IF b0 = 240 /\ has(3) /\ b[i + 1] \in 144..191
                /\ cont(i + 2) /\ cont(i + 3) THEN 4
        ELSE IF b0 \in 241..243 /\ has(3)
                /\ cont(i + 1) /\ cont(i + 2) /\ cont(i + 3) THEN 4
        ELSE IF b0 = 244 /\ has(3) /\ b[i + 1] \in 128..143
                /\ cont(i + 2) /\ cont(i + 3) THEN 4
        ELSE 0

(* The code point of the sequence of length k that starts at b[i]. *)
code_point(b, i, k) ==
    CASE k = 1 -> b[i]
      [] k = 2 -> (b[i] - 192) * 64 + (b[i + 1] - 128)
      [] k = 3 -> (b[i] - 224) * 4096 + (b[i + 1] - 128) * 64 + (b[i + 2] - 128)
      [] k = 4 -> (b[i] - 240) * 262144 + (b[i + 1] - 128) * 4096
                  + (b[i + 2] - 128) * 64 + (b[i + 3] - 128)

RECURSIVE from_utf8_at(_, _)
from_utf8_at(b, i) ==
    IF i > Len(b) THEN [ok |-> TRUE, chars |-> <<>>]
    ELSE LET k == utf8_len(b, i)
         IN  IF k = 0 THEN [ok |-> FALSE, chars |-> <<>>]
             ELSE LET rest == from_utf8_at(b, i + k)
                  IN  [ok |-> rest.ok,
                       chars |-> <<code_point(b, i, k)>> \o rest.chars]

from_utf8(b) == from_utf8_at(b, 1)

(* char::is_whitespace: the code points with the White_Space property. *)
WhiteSpace ==
    (9..13) \cup {32, 133, 160, 5760} \cup (8192..8202)
        \cup {8232, 8233, 8239, 8287, 12288}

(* str::split(' '): split at every space, empty pieces kept. *)
RECURSIVE split_space_from(_, _, _)
split_space_from(s, i, cur) ==
    IF i > Len(s) THEN <<cur>>
    ELSE IF s[i] = 32 THEN <<cur>> \o split_space_from(s, i + 1, <<>>)
    ELSE split_space_from(s, i + 1, Append(cur, s[i]))

split_on_space(s) == split_space_from(s, 1, <<>>)

(* str::split_whitespace: the maximal runs of non-whitespace, in order. *)
RECURSIVE split_from(_, _, _)
split_from(s, i, cur) ==
    LET done == IF cur = <<>> THEN <<>> ELSE <<cur>>
    IN  IF i > Len(s) THEN done
        ELSE IF s[i] \in WhiteSpace THEN done \o split_from(s, i + 1, <<>>)
        ELSE split_from(s, i + 1, Append(cur, s[i]))

split_whitespace(s) == split_from(s, 1, <<>>)

(* Method::try_from that compares without regard to case. *)
Method_try_from_ignore_case(value) ==
    IF [i \in 1..Len(value) |->
            IF value[i] \in 97..122 THEN value[i] - 32 ELSE value[i]] = GET
    THEN [ok |-> TRUE, method |-> "Get", err |-> NoError]
    ELSE [ok |-> FALSE, method |-> "", err |-> Error("unsupported method", value)]

(* Method::try_from *)
Method_try_from(value) ==
    IF value = GET
    THEN [ok |-> TRUE, method |-> "Get", err |-> NoError]
    ELSE [ok |-> FALSE, method |-> "", err |-> Error("unsupported method", value)]

EmptyMap == [name \in {} |-> <<>>]

(* Request::new *)
Request_new(method, path) ==
    [method |-> method, path |-> path, headers |-> EmptyMap]

Ok(brk_, req) == [ok |-> TRUE, brk |-> brk_, request |-> Some(req), err |-> NoError]
Err(brk_, e) == [ok |-> FALSE, brk |-> brk_, request |-> None, err |-> e]

(* read_request that takes "/" for a path that is not there. *)
parse_request_default_path(b) ==
    LET found == next_line_break(b)
    IN  IF found = None THEN Err(found, Error("too much", <<>>))
        ELSE
        LET line == from_utf8(SubSeq(b, 1, found[1]))
        IN  IF ~line.ok THEN Err(found, Error("invalid utf-8", <<>>))
            ELSE
            LET parts == split_whitespace(line.chars)
            IN  IF Len(parts) = 0 THEN Err(found, Error("missing method", <<>>))
                ELSE
                LET method == Method_try_from(parts[1])
                IN  IF ~method.ok THEN Err(found, method.err)
                    ELSE IF Len(parts) < 2
                    THEN Ok(found, Request_new(method.method, <<47>>))
                    ELSE Ok(found, Request_new(method.method, parts[2]))

(* read_request that asks for a third token, the version. *)
parse_request_needs_version(b) ==
    LET found == next_line_break(b)
    IN  IF found = None THEN Err(found, Error("too much", <<>>))
        ELSE
        LET line == from_utf8(SubSeq(b, 1, found[1]))
        IN  IF ~line.ok THEN Err(found, Error("invalid utf-8", <<>>))
            ELSE
            LET parts == split_whitespace(line.chars)
            IN  IF Len(parts) = 0 THEN Err(found, Error("missing method", <<>>))
                ELSE
                LET method == Method_try_from(parts[1])
                IN  IF ~method.ok THEN Err(found, method.err)
                    ELSE IF Len(parts) < 2
                    THEN Err(found, Error("missing path", <<>>))
                    ELSE IF Len(parts) < 3
                    THEN Err(found, Error("missing version", <<>>))
                    ELSE Ok(found, Request_new(method.method, parts[2]))

(* read_request with the header loop of its comment: the line after the
   request line, when there is one and it is not empty, must hold a ':'. *)
parse_request_with_headers(b) ==
    LET found == next_line_break(b)
    IN  IF found = None THEN Err(found, Error("too much", <<>>))
        ELSE
        LET line == from_utf8(SubSeq(b, 1, found[1]))
        IN  IF ~line.ok THEN Err(found, Error("invalid utf-8", <<>>))
            ELSE
            LET parts == split_whitespace(line.chars)
            IN  IF Len(parts) = 0 THEN Err(found, Error("missing method", <<>>))
                ELSE
                LET method == Method_try_from(parts[1])
                IN  IF ~method.ok THEN Err(found, method.err)
                    ELSE IF Len(parts) < 2
                    THEN Err(found, Error("missing path", <<>>))
                    ELSE
                    LET rest == SubSeq(b, found[1] + 3, Len(b))
                        next == next_line_break(rest)
                    IN  IF /\ next # None
                           /\ next[1] > 0
                           /\ \A i \in 1..next[1] : rest[i] # 58
                        THEN Err(found, Error("missing header value", <<>>))
                        ELSE Ok(found, Request_new(method.method, parts[2]))

(* read_request from the framing on, for the n bytes b the read returned. *)
parse_request(b) ==
    LET found == next_line_break(b)
    IN  IF found = None THEN Err(found, Error("too much", <<>>))
        ELSE
        LET line == from_utf8(SubSeq(b, 1, found[1]))
        IN  IF ~line.ok THEN Err(found, Error("invalid utf-8", <<>>))
            ELSE
            LET parts == split_whitespace(line.chars)
            IN  IF Len(parts) = 0 THEN Err(found, Error("missing method", <<>>))
                ELSE
                LET method == Method_try_from(parts[1])
                IN  IF ~method.ok THEN Err(found, method.err)
                    ELSE IF Len(parts) < 2
                    THEN Err(found, Error("missing path", <<>>))
                    ELSE Ok(found, Request_new(method.method, parts[2]))

----------------------------------------------------------------------------
(* Response Emitter *)

Status == { "Ok", "NotFound" }

(* strum::Display of Status *)
Status_to_string(status) ==
    CASE status = "Ok" -> <<50, 48, 48, 32, 79, 75>>
      [] status = "NotFound" -> <<50, 48, 48, 32, 79, 75>>

(* format!("HTTP/1.1 {}\r\n\r\n", status) with one line break too few *)
status_line_one_break(status) ==
    <<72, 84, 84, 80, 47, 49, 46, 49, 32>> \o Status_to_string(status)
        \o <<CR, LF>>

(* format!("HTTP/1.1 {}\r\n\r\n", status).as_bytes() *)
status_line(status) ==
    <<72, 84, 84, 80, 47, 49, 46, 49, 32>> \o Status_to_string(status)
        \o <<CR, LF, CR, LF>>

(* Response::new *)
Response_new(status) == [status |-> status, headers |-> EmptyMap]

(* handle_request *)
handle_request(req) == Response_new("Ok")

----------------------------------------------------------------------------
(* The connection task: handle_connection, one action per step between two
   suspension points. *)

Min(a, b) == IF a < b THEN a ELSE b

IsPrefix(p, s) == Len(p) <= Len(s) /\ SubSeq(s, 1, Len(p)) = p

(* The tasks main can spawn, the connection of a task that is not spawned yet,
   and main with no task but the one at hand. *)
Tasks == { "t1", "t2" }

Unborn ==
    [pc |-> "Unborn", wire |-> <<>>, buf |-> <<>>, brk |-> None,
     request |-> None, response |-> None, written |-> <<>>, err |-> NoError,
     ops |-> <<>>, timer |-> "none"]

OneTask ==
    /\ tasks = [t \in Tasks |-> Unborn]
    /\ running = "t1"
    /\ proc = None

Init ==
    /\ pc = "Idle"
    /\ wire \in Wires
    /\ buf = <<>>
    /\ brk = None
    /\ request = None
    /\ response = None
    /\ written = <<>>
    /\ err = NoError
    /\ ops = <<>>
    /\ timer = "none"
    /\ OneTask

(* The task is polled for the first time: read_request issues its read under
   timeout(READ_TIMEOUT, ..) and suspends. *)
Start ==
    /\ pc = "Idle"
    /\ pc' = "Reading"
    /\ ops' = Append(ops, "read")
    /\ timer' = "READ_TIMEOUT"
    /\ UNCHANGED <<wire, buf, brk, request, response, written, err>>
    /\ UNCHANGED sched

(* The lengths stream.read(&mut buf) can return: what has arrived, at most the
   buffer's capacity; 0 only at end of stream, the peer having sent nothing. *)
ReadLensPastCapacity ==
    IF wire = <<>> THEN {0} ELSE 1..Len(wire)

ReadLens ==
    IF wire = <<>> THEN {0} ELSE 1..Min(Len(wire), MAX_HEADER_SIZE)

(* read_request returns Err: `?` in handle_connection returns it at once. *)
read_request_failed_best_effort(e) ==
    /\ pc' = "Closed"
    /\ err' = e
    /\ timer' = "none"
    /\ written' = written \o status_line("NotFound")
    /\ UNCHANGED <<request, response>>

read_request_failed(e) ==
    /\ pc' = "Closed"
    /\ err' = e
    /\ timer' = "none"
    /\ UNCHANGED <<request, response, written>>

(* Ok(Ok(n)) => n *)
ReadOk ==
    /\ pc = "Reading"
    /\ \E n \in ReadLens : buf' = SubSeq(wire, 1, n)
    /\ pc' = "Received"
    /\ timer' = "none"
    /\ UNCHANGED <<wire, brk, request, response, written, err, ops>>
    /\ UNCHANGED sched

(* Ok(Err(e)) => Err(e)? *)
ReadErr ==
    /\ pc = "Reading"
    /\ read_request_failed(Error("io", <<>>))
    /\ UNCHANGED <<wire, buf, brk, ops>>
    /\ UNCHANGED sched

(* A read timeout after which the read is issued again. *)
ReadTimeoutRetry ==
    /\ pc = "Reading"
    /\ Len(ops) <= 2
    /\ pc' = "Reading"
    /\ err' = Error("read timeout", <<>>)
    /\ ops' = Append(ops, "read")
    /\ UNCHANGED <<wire, buf, brk, request, response, written, timer>>
    /\ UNCHANGED sched

(* Err(_) => bail!("read timeout") *)
ReadTimeout ==
    /\ pc = "Reading"
    /\ read_request_failed(Error("read timeout", <<>>))
    /\ UNCHANGED <<wire, buf, brk, ops>>
    /\ UNCHANGED sched

(* The rest of read_request: framing and parsing of buf[..n]. *)
ParseRequest ==
    /\ pc = "Received"
    /\ LET r == parse_request(buf)
       IN  /\ brk' = r.brk
           /\ IF r.ok
              THEN /\ request' = r.request
                   /\ pc' = "Parsed"
                   /\ UNCHANGED <<response, written, err, timer>>
              ELSE read_request_failed(r.err)
    /\ ops' = Append(ops, "parse")
    /\ UNCHANGED <<wire, buf>>
    /\ UNCHANGED sched

(* handle_request, then Response::write issues write_all under
   timeout(WRITE_TIMEOUT, ..) and suspends. *)
HandleRequest ==
    /\ pc = "Parsed"
    /\ response' = Some(handle_request(request[1]))
    /\ pc' = "Responding"
    /\ ops' = Append(ops, "write")
    /\ timer' = "WRITE_TIMEOUT"
    /\ UNCHANGED <<wire, buf, brk, request, written, err>>
    /\ UNCHANGED sched

(* A completed write after which the task reads again. *)
WriteOkThenRead ==
    /\ pc = "Responding"
    /\ Len(ops) <= 4
    /\ written' = written \o status_line(response[1].status)
    /\ pc' = "Reading"
    /\ ops' = Append(ops, "read")
    /\ timer' = "READ_TIMEOUT"
    /\ UNCHANGED <<wire, buf, brk, request, response, err>>
    /\ UNCHANGED sched

(* A completed write after which handle_connection returns Ok(()) at once. *)
WriteOkNoFlush ==
    /\ pc = "Responding"
    /\ written' = written \o status_line(response[1].status)
    /\ pc' = "Closed"
    /\ timer' = "none"
    /\ UNCHANGED <<wire, buf, brk, request, response, err, ops>>
    /\ UNCHANGED sched

(* Ok(Ok(_)) => (): every byte of the status line was written; handle_connection
   goes on to stream.flush().await, which no timeout() wraps. *)
WriteOk ==
    /\ pc = "Responding"
    /\ written' = written \o status_line(response[1].status)
    /\ pc' = "Flushing"
    /\ ops' = Append(ops, "flush")
    /\ timer' = "none"
    /\ UNCHANGED <<wire, buf, brk, request, response, err>>
    /\ UNCHANGED sched

(* write_all stops short: k bytes of the status line are out, k < its length. *)
write_failed(e) ==
    /\ \E k \in 0..(Len(status_line(response[1].status)) - 1) :
           written' = written \o SubSeq(status_line(response[1].status), 1, k)
    /\ pc' = "Closed"
    /\ err' = e
    /\ timer' = "none"
    /\ UNCHANGED <<wire, buf, brk, request, response, ops>>

(* Ok(Err(e)) => Err(e)? *)
WriteErr ==
    /\ pc = "Responding"
    /\ write_failed(Error("io", <<>>))
    /\ UNCHANGED sched

(* Err(_) => bail!("write timeout") *)
WriteTimeout ==
    /\ pc = "Responding"
    /\ write_failed(Error("write timeout", <<>>))
    /\ UNCHANGED sched

(* stream.flush().await? returns Ok: handle_connection returns Ok(()). *)
FlushOk ==
    /\ pc = "Flushing"
    /\ pc' = "Closed"
    /\ UNCHANGED <<wire, buf, brk, request, response, written, err, ops, timer>>
    /\ UNCHANGED sched

(* stream.flush().await? returns Err. *)
FlushErr ==
    /\ pc = "Flushing"
    /\ pc' = "Closed"
    /\ err' = Error("io", <<>>)
    /\ UNCHANGED <<wire, buf, brk, request, response, written, ops, timer>>
    /\ UNCHANGED sched

Next ==
    \/ Start
    \/ ReadOk
    \/ ReadErr
    \/ ReadTimeout
    \/ ParseRequest
    \/ HandleRequest
    \/ WriteOk
    \/ WriteErr
    \/ WriteTimeout
    \/ FlushOk
    \/ FlushErr

Spec == Init /\ [][Next]_vars

(* The Frame Locator on its own: every byte slice over CR, LF and one other
   byte, of every length up to the capacity, as the bytes a read returned. *)
FrameBytes == { CR, LF, 71 }

RECURSIVE Slices(_)
Slices(k) ==
    IF k = 0 THEN { <<>> }
    ELSE LET prev == Slices(k - 1)
         IN  prev \cup { Append(w, b) : w \in { v \in prev : Len(v) = k - 1 },
                                       b \in FrameBytes }

InitFrame ==
    /\ pc = "Received"
    /\ buf \in Slices(MAX_HEADER_SIZE)
    /\ wire = buf
    /\ brk = None
    /\ request = None
    /\ response = None
    /\ written = <<>>
    /\ err = NoError
    /\ ops = <<"read">>
    /\ timer = "none"
    /\ OneTask

SpecFrame == InitFrame /\ [][ParseRequest]_vars

(* The Request Parser on its own: the bytes a read returned, made of at most
   MaxPieces of these pieces and no longer than the buffer. *)
ParsePieces ==
    { GET, <<103, 101, 116>>, <<47>>, <<32, 47>>, <<32>>, <<194, 160>>,
      <<255>>, <<CR, LF>> }

ParseInputs ==
    { b \in Concats(ParsePieces, MaxPieces) : Len(b) <= MAX_HEADER_SIZE }

InitParse ==
    /\ pc = "Received"
    /\ buf \in ParseInputs
    /\ wire = buf
    /\ brk = None
    /\ request = None
    /\ response = None
    /\ written = <<>>
    /\ err = NoError
    /\ ops = <<"read">>
    /\ timer = "none"
    /\ OneTask

NextParse ==
    \/ ParseRequest
    \/ HandleRequest
    \/ WriteOk
    \/ WriteErr
    \/ WriteTimeout
    \/ FlushOk
    \/ FlushErr

SpecParse == InitParse /\ [][NextParse]_vars

----------------------------------------------------------------------------
(* main: the accept loop and the tasks it spawns *)

(* What the peers of the connections main accepts send. *)
TaskWires ==
    { GET \o <<32, 47, CR, LF>>, POST \o <<32, 47, CR, LF>>, <<255, CR, LF>> }

(* The connection at hand as a value, and the variables taking a value. *)
Current ==
    [pc |-> pc, wire |-> wire, buf |-> buf, brk |-> brk, request |-> request,
     response |-> response, written |-> written, err |-> err, ops |-> ops,
     timer |-> timer]

Load(c) ==
    /\ pc' = c.pc
    /\ wire' = c.wire
    /\ buf' = c.buf
    /\ brk' = c.brk
    /\ request' = c.request
    /\ response' = c.response
    /\ written' = c.written
    /\ err' = c.err
    /\ ops' = c.ops
    /\ timer' = c.timer

(* Every task's connection; the running task's slot in tasks is kept empty. *)
View(t) == IF t = running THEN Current ELSE tasks[t]

Park == [tasks EXCEPT ![running] = Current]

(* let (stream, addr) = listener.accept().await?; tokio::spawn(..): a task of
   its own for the connection, with its own stream and its own buffer. *)
Accept ==
    /\ proc = None
    /\ \E t \in Tasks, w \in TaskWires :
          /\ View(t).pc = "Unborn"
          /\ tasks' = [Park EXCEPT ![t] = Unborn]
          /\ running' = t
          /\ Load([Unborn EXCEPT !.pc = "Idle", !.wire = w])
    /\ UNCHANGED proc

(* The runtime dropping a task: one that has not returned from
   handle_connection is dropped at its suspension and runs no more. *)
Cancel(c) ==
    IF c.pc \in { "Unborn", "Closed", "Joined" } THEN c
    ELSE [c EXCEPT !.pc = "Cancelled", !.timer = "none"]

(* listener.accept().await? fails: main returns the error, the runtime is
   dropped and with it every task. *)
AcceptErr ==
    /\ proc = None
    /\ proc' = Some(Error("accept", <<>>))
    /\ Load(Cancel(Current))
    /\ tasks' = [t \in Tasks |-> Cancel(tasks[t])]
    /\ UNCHANGED running

(* The runtime goes on with another task. *)
SwitchTo(t) ==
    /\ t # running
    /\ tasks[t].pc \notin { "Unborn", "Joined", "Cancelled" }
    /\ tasks' = [Park EXCEPT ![t] = Unborn]
    /\ running' = t
    /\ Load(tasks[t])
    /\ UNCHANGED proc

Switch == \E t \in Tasks : SwitchTo(t)

(* A task whose error main propagates: handle_connection(stream).await? *)
ReportFatal ==
    /\ pc = "Closed"
    /\ pc' = "Joined"
    /\ proc' = IF err = NoError THEN proc ELSE Some(err)
    /\ UNCHANGED <<wire, buf, brk, request, response, written, err, ops, timer,
                   tasks, running>>

(* match handle_connection(stream).await { Ok(_) => {}, Err(e) => println! }:
   the task ends, whatever the result. *)
Report ==
    /\ pc = "Closed"
    /\ pc' = "Joined"
    /\ UNCHANGED <<wire, buf, brk, request, response, written, err, ops, timer>>
    /\ UNCHANGED sched

InitMulti ==
    /\ pc = "Unborn"
    /\ wire = <<>>
    /\ buf = <<>>
    /\ brk = None
    /\ request = None
    /\ response = None
    /\ written = <<>>
    /\ err = NoError
    /\ ops = <<>>
    /\ timer = "none"
    /\ OneTask

NextMulti ==
    \/ Accept
    \/ AcceptErr
    \/ Switch
    \/ Report
    \/ Start
    \/ ReadOk
    \/ ReadErr
    \/ ReadTimeout
    \/ ParseRequest
    \/ HandleRequest
    \/ WriteOk
    \/ WriteErr
    \/ WriteTimeout
    \/ FlushOk
    \/ FlushErr

SpecMulti == InitMulti /\ [][NextMulti]_vars

----------------------------------------------------------------------------
(* Properties *)

Did(op) == \E i \in 1..Len(ops) : ops[i] = op

(* The offsets at which CR LF stands in b, counted from 0. *)
BreaksOf(b) == { i \in 0..(Len(b) - 2) : b[i + 1] = CR /\ b[i + 2] = LF }

FirstBreak(b) ==
    IF BreaksOf(b) = {} THEN None
    ELSE Some(CHOOSE i \in BreaksOf(b) : \A j \in BreaksOf(b) : i <= j)

Visible(b) == Len(b) > 0 /\ \A i \in 1..Len(b) : b[i] \in 33..126

(* "GET <path>" or "GET <path> <version>", one space between the tokens. *)
IsGetLine(l) ==
    /\ Len(l) >= 5
    /\ SubSeq(l, 1, 4) = GET \o <<32>>
    /\ \E j \in 5..Len(l) :
          /\ Visible(SubSeq(l, 5, j))
          /\ \/ j = Len(l)
             \/ /\ j + 2 <= Len(l)
                /\ l[j + 1] = 32
                /\ Visible(SubSeq(l, j + 2, Len(l)))

(* b starts with such a request line followed by CR LF. *)
StartsWithGetLine(b) ==
    \E k \in 5..(Len(b) - 2) :
        /\ b[k + 1] = CR
        /\ b[k + 2] = LF
        /\ IsGetLine(SubSeq(b, 1, k))

Http200 ==
    <<72, 84, 84, 80, 47, 49, 46, 49, 32, 50, 48, 48, 32, 79, 75, 13, 10, 13, 10>>

(* C1: the status lines Response::write serializes for two distinct Status
   values differ: the line of the response at hand is the line of no other
   Status value. *)
C1_StatusLinesDistinct ==
    response # None
        => \A s, t \in Status :
              (s = response[1].status /\ s # t) => status_line(s) # status_line(t)

(* C2: for the bytes a read returned, of any length up to the capacity,
   next_line_break returns the offset of the first CR LF, and None exactly
   when there is none. *)
C2_FirstLineBreak ==
    Did("parse") => brk = FirstBreak(buf)

(* The terminator in the last two bytes of a full buffer is found. *)
C2_Witness ==
    /\ Did("parse")
    /\ Len(buf) = MAX_HEADER_SIZE
    /\ brk = Some(MAX_HEADER_SIZE - 2)
    /\ BreaksOf(buf) = { MAX_HEADER_SIZE - 2 }

(* C3: a read of zero bytes ends the connection with an outcome that is
   neither the I/O error nor the outcome of input without a terminator. *)
C3_ZeroReadIsClosed ==
    (pc = "Closed" /\ Did("parse") /\ Len(buf) = 0)
        => err.kind \notin { "io", "too much" }

(* C4: when read_request fails, nothing is written to the connection and no
   write is attempted. *)
C4_NoResponseAfterReadFailure ==
    (pc = "Closed" /\ request = None)
        => (written = <<>> /\ response = None /\ ~Did("write"))

(* The request line "POST / ..." is refused with its method, nothing written. *)
C4_Witness ==
    /\ pc = "Closed"
    /\ request = None
    /\ err = Error("unsupported method", POST)
    /\ written = <<>>

(* C5: when the read delivers bytes that start with "GET <path>", with or
   without a version, then CR LF, the request is served, and once the write
   has completed the bytes written are exactly "HTTP/1.1 200 OK" CR LF CR LF. *)
C5_GetIsAnswered200 ==
    (StartsWithGetLine(buf) /\ Did("parse"))
        => /\ request # None
           /\ Did("flush") => written = Http200

(* A request line with a version token, answered and closed without error. *)
C5_Witness ==
    /\ pc = "Closed"
    /\ err = NoError
    /\ IsPrefix(GET \o <<32, 47, 32, 47, CR, LF>>, buf)
    /\ written = Http200

(* C6: a client that sends a request line shorter than the capacity gets the
   status line however its bytes are split across reads, unless a deadline
   or the transport fails: it is not refused with "too much", which is for a
   buffer filled without a terminator. *)
C6_AnsweredHoweverSplit ==
    (/\ pc = "Closed"
     /\ StartsWithGetLine(wire)
     /\ FirstBreak(wire)[1] + 2 < MAX_HEADER_SIZE
     /\ err.kind \notin { "io", "read timeout", "write timeout" })
          => (written = Http200 /\ err.kind # "too much")

(* C7: the buffer never holds more than MAX_HEADER_SIZE bytes, and a request
   with no CR LF in its first MAX_HEADER_SIZE bytes, once read, fails with
   "too much" and nothing is written. *)
C7_TooLargeIsRefused ==
    /\ Len(buf) <= MAX_HEADER_SIZE
    /\ (/\ pc = "Closed"
        /\ Did("parse")
        /\ Len(wire) >= MAX_HEADER_SIZE
        /\ BreaksOf(SubSeq(wire, 1, MAX_HEADER_SIZE)) = {})
          => (err.kind = "too much" /\ written = <<>>)

(* More bytes sent than the buffer holds, the buffer filled, no terminator. *)
C7_Witness ==
    /\ pc = "Closed"
    /\ Len(wire) > MAX_HEADER_SIZE
    /\ Len(buf) = MAX_HEADER_SIZE
    /\ BreaksOf(buf) = {}
    /\ err.kind = "too much"
    /\ written = <<>>

(* C8: a connection whose read timed out is closed, with the one read as its
   only operation and nothing written; one whose write timed out is closed,
   with no operation after that write. *)
C8_TimeoutIsTerminal ==
    /\ err.kind = "read timeout"
          => (pc = "Closed" /\ ops = <<"read">> /\ written = <<>>)
    /\ err.kind = "write timeout"
          => (pc = "Closed" /\ ops = <<"read", "parse", "write">>)
    /\ (pc = "Closed" /\ ops = <<"read">>) => err.kind \in { "read timeout", "io" }

(* The write deadline expired with part of the status line out. *)
C8_Witness ==
    /\ pc = "Closed"
    /\ err.kind = "write timeout"
    /\ written # <<>>
    /\ written # Http200

Phase(p) ==
    CASE p = "Idle" -> 0
      [] p \in { "Reading", "Received" } -> 1
      [] p = "Parsed" -> 2
      [] p \in { "Responding", "Flushing" } -> 3
      [] p = "Closed" -> 4

(* C9: every step keeps the connection in its phase, moves it to the next of
   Idle, Reading, Parsed, Responding, Closed, or closes it; the operations
   are a prefix of read, parse, write, flush, so there is one read at most,
   before the parse, and the parse is before the write; what is written is a
   prefix of one status line. *)
C9_Lifecycle ==
    [][/\ \/ Phase(pc') = Phase(pc)
          \/ Phase(pc') = Phase(pc) + 1
          \/ pc' = "Closed"
       /\ pc # "Closed"
       /\ IsPrefix(ops', <<"read", "parse", "write", "flush">>)
       /\ Phase(pc') = 2 => ops' = <<"read", "parse">>
       /\ Phase(pc') = 1 => ops' = <<"read">>
       /\ IsPrefix(written', Http200)
       /\ written' # <<>> => Did("write")']_vars

(* A connection that went through every phase and closed without error. *)
C9_Witness ==
    /\ pc = "Closed"
    /\ err = NoError
    /\ ops = <<"read", "parse", "write", "flush">>
    /\ written = Http200

(* C10: at every suspension point of handle_connection (the read, the write,
   the flush) a deadline is armed. *)
C10_EverySuspensionBounded ==
    pc \in { "Reading", "Responding", "Flushing" } => timer # "none"

----------------------------------------------------------------------------
(* Properties of the Request Parser *)

(* The request line was framed: the bytes before the first CR LF. *)
Framed == Did("parse") /\ brk # None

LineBytes == SubSeq(buf, 1, brk[1])

(* The request line is text, and then its characters. *)
LineIsText == from_utf8(LineBytes).ok

LineChars == from_utf8(LineBytes).chars

(* The tokens of s: <<i, j>> for every maximal run s[i..j] without whitespace. *)
TokenSpans(s) ==
    { sp \in (1..Len(s)) \X (1..Len(s)) :
        /\ sp[1] <= sp[2]
        /\ \A k \in sp[1]..sp[2] : s[k] \notin WhiteSpace
        /\ sp[1] = 1 \/ s[sp[1] - 1] \in WhiteSpace
        /\ sp[2] = Len(s) \/ s[sp[2] + 1] \in WhiteSpace }

NumTokens(s) == Cardinality(TokenSpans(s))

(* The k-th token of s, for k in 1..NumTokens(s). *)
Token(s, k) ==
    LET sp == CHOOSE t \in TokenSpans(s) :
                  Cardinality({ u \in TokenSpans(s) : u[1] < t[1] }) = k - 1
    IN  SubSeq(s, sp[1], sp[2])

(* C12: a request line whose first token is not exactly "GET" fails with
   the unsupported method, that token, whatever follows it; a Request is
   only ever built with the method Get, from a line whose first token is
   "GET". *)
C12_UnsupportedMethodFirst ==
    /\ (Framed /\ LineIsText /\ NumTokens(LineChars) >= 1
            /\ Token(LineChars, 1) # GET)
          => /\ request = None
             /\ pc = "Closed"
             /\ err = Error("unsupported method", Token(LineChars, 1))
    /\ request # None
          => /\ request[1].method = "Get"
             /\ Framed /\ LineIsText /\ NumTokens(LineChars) >= 1
             /\ Token(LineChars, 1) = GET

(* "get" alone on the line: refused for its method, not for the missing path. *)
C12_Witness ==
    /\ Framed
    /\ LineBytes = <<103, 101, 116>>
    /\ err = Error("unsupported method", <<103, 101, 116>>)
    /\ request = None

(* C13, as stated: a request line without a second token fails with
   "missing path". *)
C13_NoSecondTokenIsMissingPath ==
    (Framed /\ LineIsText /\ NumTokens(LineChars) < 2)
        => (pc = "Closed" /\ err.kind = "missing path")

(* C13, amended: a request line whose only token is "GET" fails with
   "missing path". *)
C13_GetAloneIsMissingPath ==
    (Framed /\ LineIsText /\ NumTokens(LineChars) = 1
        /\ Token(LineChars, 1) = GET)
        => (pc = "Closed" /\ err = Error("missing path", <<>>) /\ request = None)

(* "GET" and spaces, no path. *)
C13_Witness ==
    /\ Framed
    /\ LineBytes = GET \o <<32>>
    /\ err.kind = "missing path"

(* The path of a line "GET <path>" or "GET <path> <version>". *)
PathOf(l) ==
    LET j == CHOOSE k \in 5..Len(l) :
                 /\ Visible(SubSeq(l, 5, k))
                 /\ k = Len(l) \/ l[k + 1] = 32
    IN  SubSeq(l, 5, j)

(* C14: bytes that start with "GET <path>" CR LF, the path without
   whitespace, parse to the Request with method Get, that path and no
   headers; so do they with a version token after the path. *)
C14_ParsesMethodAndPath ==
    (Did("parse") /\ StartsWithGetLine(buf))
        => /\ brk # None
           /\ request = Some([method |-> "Get",
                              path |-> PathOf(LineBytes),
                              headers |-> EmptyMap])

(* "GET /get" without a version. *)
C14_Witness ==
    /\ buf = GET \o <<32, 47, 103, 101, 116, CR, LF>>
    /\ request # None
    /\ request[1].path = <<47, 103, 101, 116>>

(* C16, as stated: a request line that is empty or only whitespace, or that
   is not there at all, fails with "missing method", nothing written. *)
C16_EmptyOrMissingLineIsMissingMethod ==
    (Did("parse")
        /\ \/ brk = None
           \/ LineIsText /\ NumTokens(LineChars) = 0)
        => (pc = "Closed" /\ err.kind = "missing method" /\ written = <<>>)

(* C16, amended: a framed request line that is empty or only whitespace
   fails with "missing method", nothing written. *)
C16_EmptyLineIsMissingMethod ==
    (Framed /\ LineIsText /\ NumTokens(LineChars) = 0)
        => /\ pc = "Closed"
           /\ err = Error("missing method", <<>>)
           /\ request = None
           /\ written = <<>>

(* CR LF at offset 0. *)
C16_Witness ==
    /\ Framed
    /\ brk = Some(0)
    /\ err.kind = "missing method"
    /\ written = <<>>

----------------------------------------------------------------------------
(* Properties of the outcomes *)

(* The kinds of the taxonomy, by the messages the code gives them. *)
TaxonomyKinds ==
    { "read timeout", "write timeout", "io", "connection closed", "too much",
      "missing method", "missing path", "unsupported method",
      "malformed header" }

(* C15: every failure of a connection is of one of the nine kinds. *)
C15_TaxonomyOnly ==
    err.kind \in TaxonomyKinds \cup { "none" }

(* C17: handle_connection returns Ok only after the write and then the flush,
   with the whole status line written; while it flushes the write is done;
   a connection closed with the status line not whole has failed. *)
C17_FlushBeforeSuccess ==
    /\ (pc = "Closed" /\ err = NoError)
          => (ops = <<"read", "parse", "write", "flush">> /\ written = Http200)
    /\ pc = "Flushing" => (written = Http200 /\ err = NoError)
    /\ (pc = "Closed" /\ Did("write") /\ written # Http200)
          => err.kind \in { "io", "write timeout" }
    /\ (pc = "Closed" /\ Did("flush") /\ err # NoError)
          => err = Error("io", <<>>)

(* The write succeeded, the flush failed: the connection reports the error. *)
C17_Witness ==
    /\ pc = "Closed"
    /\ ops = <<"read", "parse", "write", "flush">>
    /\ written = Http200
    /\ err = Error("io", <<>>)

(* C18: what read_request returns for the bytes read is what it returns for
   their part up to and including the first CR LF; the Request has no
   headers; what is written is a prefix of the one status line. *)
C18_OnlyTheRequestLineCounts ==
    /\ Framed
          => LET r == parse_request(SubSeq(buf, 1, brk[1] + 2))
             IN  /\ r.brk = brk
                 /\ request = r.request
                 /\ ~r.ok => (err = r.err /\ written = <<>>)
    /\ request # None => request[1].headers = EmptyMap
    /\ IsPrefix(written, Http200)

(* A line without ':' after the request line, and the request is served. *)
C18_Witness ==
    /\ buf = GET \o <<32, 47, CR, LF, 47, CR, LF>>
    /\ pc = "Closed"
    /\ err = NoError
    /\ request = Some(Request_new("Get", <<47>>))
    /\ written = Http200

(* C19: next_line_break never computes len - 1 for an empty slice and reads
   only indices below the length of the slice; an offset it returns is at
   most len - 2, so buf[..idx] lies within the bytes read. *)
C19_FramingInBounds ==
    Did("parse")
        => /\ ~next_line_break_accesses(buf).underflow
           /\ \A i \in next_line_break_accesses(buf).reads : i < Len(buf)
           /\ brk # None => (brk[1] >= 0 /\ brk[1] <= Len(buf) - 2)

(* A full slice without terminator that ends in CR: every index is read, the
   last one as the second byte of the last pair. *)
C19_Witness ==
    /\ Did("parse")
    /\ Len(buf) = MAX_HEADER_SIZE
    /\ buf[Len(buf)] = CR
    /\ buf[Len(buf) - 1] = CR
    /\ brk = None
    /\ next_line_break_accesses(buf).reads = 0..(Len(buf) - 1)

----------------------------------------------------------------------------
(* Properties of the tasks *)

(* The outcome of connection c as its own bytes and its own I/O give it. *)
TaskLocal(c) ==
    /\ c.pc = "Unborn" => c = Unborn
    /\ IsPrefix(c.buf, c.wire)
    /\ IsPrefix(c.written, Http200)
    /\ (\E i \in 1..Len(c.ops) : c.ops[i] = "parse")
          => LET r == parse_request(c.buf)
             IN  /\ c.brk = r.brk
                 /\ c.request = r.request
                 /\ ~r.ok => (c.err = r.err /\ c.written = <<>>)
                 /\ r.ok => c.err.kind \in { "none", "io", "write timeout" }
    /\ (\A i \in 1..Len(c.ops) : c.ops[i] # "parse")
          => (c.err.kind \in { "none", "io", "read timeout" }
              /\ c.written = <<>>)

Live == { "Idle", "Reading", "Received", "Parsed", "Responding", "Flushing",
          "Closed" }

(* The task at hand has a step: an I/O completion at a suspension, the end of
   the task once handle_connection returned, or (at "Received") the rest of
   read_request, a computation that suspends nowhere and always returns. *)
CanStep ==
    \/ pc = "Received"
    \/ ENABLED (Start \/ ReadOk \/ HandleRequest \/ WriteOk \/ FlushOk \/ Report)

(* C11: the process stops only when accept fails, never for a task's failure;
   while it runs no task is dropped and every task that has not ended can be
   taken up and can step, whatever the others did; every task's outcome is
   the one its own bytes and its own I/O give; and a step of one task leaves
   the connections of the others as they are. *)
C11_TasksAreIndependent ==
    /\ [](/\ proc # None => proc = Some(Error("accept", <<>>))
          /\ \A t \in Tasks : TaskLocal(View(t))
          /\ \A t \in Tasks :
                (proc = None /\ View(t).pc \in Live)
                    => IF t = running THEN CanStep ELSE ENABLED SwitchTo(t)
          /\ \A t \in Tasks : View(t).pc = "Cancelled" => proc # None)
    /\ [][proc' = proc
            => \A t, u \in Tasks :
                   t # u => (View(t)' = View(t) \/ View(u)' = View(u))]_vars

(* One task has failed and ended, on other bytes than the ones of the task
   that is being served now. *)
C11_Witness ==
    /\ proc = None
    /\ running = "t2"
    /\ pc = "Flushing"
    /\ written = Http200
    /\ tasks["t1"].pc = "Joined"
    /\ tasks["t1"].err.kind = "unsupported method"
    /\ tasks["t1"].written = <<>>

====
